---- MODULE Spec2Model ----
(***************************************************************************)
(* Data preparation and model declaration of the disease-mapping notebooks *)
(* (BYM, Leroux, linear-time spatio-temporal Leroux).                      *)
(*                                                                         *)
(* Arrays are functions over 0..n-1, as in the notebooks; Python lists and *)
(* the outputs of np.where are sequences whose VALUES are 0-based.         *)
(* Real numbers are exact rationals <<numerator, denominator>>; floating   *)
(* point rounding is modelled only where it decides a discrete result, the *)
(* length of np.arange.                                                    *)
(***************************************************************************)
EXTENDS Integers, Sequences, FiniteSets, TLC

VARIABLES
    pc,          \* position in the notebook
    N,           \* N = len(y)
    ADJ,         \* the ADJ column as parsed: per area a list of 1-based indices
    adj,         \* the list of lists `adj`, rewritten in place to 0-based
    adj_matrix,  \* the N x N int32 array
    N_edges,     \* (adj_matrix == 1).sum()
    node1,       \* np.where(adj_matrix == 1)[0]
    node2,       \* np.where(adj_matrix == 1)[1]
    x_str,       \* one entry of the ADJ column as text (a sequence of characters)
    row,         \* the list the lambda of the ADJ parse returns for x_str
    rho,         \* spatial mixing parameter
    phi,         \* a latent random-effect vector
    potential,   \* values of the potential terms, by name
    y,           \* observed counts (column CANCER)
    x,           \* covariate (column AFF / 10)
    logE,        \* log of the expected counts (column CEXP)
    T,           \* number of time steps, len(multipler)
    y_time,      \* N x T synthetic counts
    x_time,      \* N x T synthetic covariate
    log_offset_time, \* N x T synthetic offset
    t_diff,      \* N x T centred time index
    multipler,   \* the growth factors np.arange(1.0, 1.3, step=0.05)
    random_slope, \* the temporal perturbation of the area being generated
    loop_i,      \* the area the generator's loop `for i in range(N)` is at
    draw_args,   \* per cell (i, j): the arguments the random draws were called with
    model,       \* the declared pm.Model: its random variables, potentials, likelihood
    point,       \* a point of the parameter space the sampler evaluates the model at
    eta,         \* the deterministic "eta" at that point
    mu           \* the mean handed to the Poisson likelihood at that point

adjVars == <<N, ADJ, adj, adj_matrix, N_edges, node1, node2>>
parseVars == <<x_str, row>>
potVars == <<rho, phi, potential>>
dataVars == <<y, x, logE, T, y_time, x_time, log_offset_time, t_diff,
              multipler, random_slope, loop_i, draw_args>>
declVars == <<model, point, eta, mu>>

vars == <<pc, adjVars, parseVars, potVars, dataVars, declVars>>

\* the variables of the model cells, before any of them has run
NoModelYet ==
    /\ y = <<>>
    /\ x = <<>>
    /\ logE = <<>>
    /\ T = 0
    /\ y_time = <<>>
    /\ x_time = <<>>
    /\ log_offset_time = <<>>
    /\ t_diff = <<>>
    /\ multipler = <<>>
    /\ random_slope = <<>>
    /\ loop_i = 0
    /\ draw_args = <<>>
    /\ model = <<>>
    /\ point = <<>>
    /\ eta = <<>>
    /\ mu = <<>>

\* Largest number of areas the adjacency pipeline is run on.
NAreas == 3

Areas(n) == 0 .. (n - 1)

Range(s) == {s[k] : k \in DOMAIN s}

RECURSIVE SetToAscSeq(_)
SetToAscSeq(S) ==
    IF S = {} THEN <<>>
    ELSE LET m == CHOOSE lo \in S : \A z \in S : lo <= z
         IN  <<m>> \o SetToAscSeq(S \ {m})

\* The neighbour lists a row of the ADJ column can hold for n areas: the
\* parser never returns an empty list (int("") raises), indices are 1-based.
NbrLists(n) == {SetToAscSeq(S) : S \in (SUBSET (1 .. n)) \ {{}}}

----------------------------------------------------------------------------
\* Variant that leaves the 1-based indices as they are.
ToPythonIndexing_NoShift(a) ==
    [i \in DOMAIN a |-> [j \in DOMAIN a[i] |-> a[i][j]]]

\* for i in range(len(adj)): for j in range(len(adj[i])): adj[i][j] = adj[i][j] - 1
ToPythonIndexing(a) ==
    [i \in DOMAIN a |-> [j \in DOMAIN a[i] |-> a[i][j] - 1]]

\* numpy index normalisation along an axis of length n: -n <= k < n is valid,
\* a negative k counts from the end.
IndexOK(k, n) == (0 - n) <= k /\ k < n
NormIndex(k, n) == IF k < 0 THEN k + n ELSE k

\* np.zeros((N, N), dtype="int32")
Zeros(n) == [i \in Areas(n) |-> [j \in Areas(n) |-> 0]]

\* adj_matrix[area, adj[area]] = 1 : fancy-index assignment into one row
SetRow(m, area, idx, n) ==
    [m EXCEPT ![area] =
        [c \in Areas(n) |->
            IF \E k \in DOMAIN idx : NormIndex(idx[k], n) = c THEN 1 ELSE m[area][c]]]

RECURSIVE FillRows(_, _, _, _)
FillRows(m, a, area, n) ==
    IF area >= n THEN m
    ELSE FillRows(SetRow(m, area, a[area], n), a, area + 1, n)

\* Variant that also sets the mirrored cell adj_matrix[n, area].
MatrixOf_Mirrored(a, n) ==
    [r \in Areas(n) |-> [c \in Areas(n) |->
        IF \/ \E k \in DOMAIN a[r] : NormIndex(a[r][k], n) = c
           \/ \E k \in DOMAIN a[c] : NormIndex(a[c][k], n) = r
        THEN 1 ELSE 0]]

\* for area in range(N): adj_matrix[area, adj[area]] = 1
MatrixOf(a, n) == FillRows(Zeros(n), a, 0, n)

\* an index outside [-N, N) raises IndexError
AllIndicesOK(a, n) ==
    \A i \in DOMAIN a : \A k \in DOMAIN a[i] : IndexOK(a[i][k], n)

\* np.where(m == 1): the (row, col) of every cell equal to 1, in row-major
\* (C) order of the flattened array
RECURSIVE WhereFrom(_, _, _)
WhereFrom(m, n, k) ==
    IF k >= n * n THEN <<>>
    ELSE LET r == k \div n
             c == k % n
         IN  (IF m[r][c] = 1 THEN <<(<<r, c>>)>> ELSE <<>>) \o WhereFrom(m, n, k + 1)

\* Variant that scans the array in column-major (Fortran) order.
RECURSIVE WhereFromF(_, _, _)
WhereFromF(m, n, k) ==
    IF k >= n * n THEN <<>>
    ELSE LET c == k \div n
             r == k % n
         IN  (IF m[r][c] = 1 THEN <<(<<r, c>>)>> ELSE <<>>) \o WhereFromF(m, n, k + 1)

Where_ColumnMajor(m, n) == WhereFromF(m, n, 0)

Where(m, n) == WhereFrom(m, n, 0)

\* (adj_matrix == 1).sum()
RECURSIVE SumOnes(_, _, _)
SumOnes(m, n, k) ==
    IF k >= n * n THEN 0
    ELSE (IF m[k \div n][k % n] = 1 THEN 1 ELSE 0) + SumOnes(m, n, k + 1)

\* Variant that counts each undirected edge once (upper triangle only).
CountOnes_Upper(m, n) ==
    Cardinality({rc \in Areas(n) \X Areas(n) : rc[1] <= rc[2] /\ m[rc[1]][rc[2]] = 1})

CountOnes(m, n) == SumOnes(m, n, 0)

----------------------------------------------------------------------------
\* State after the ADJ column has been parsed into `adj`.
Init ==
    /\ pc = "parsed"
    /\ N \in 1 .. NAreas
    /\ ADJ \in [Areas(N) -> NbrLists(N)]
    /\ adj = ADJ
    /\ adj_matrix = <<>>
    /\ N_edges = 0
    /\ node1 = <<>>
    /\ node2 = <<>>
    /\ x_str = <<>>
    /\ row = <<>>
    /\ rho = <<0, 1>>
    /\ phi = <<>>
    /\ potential = <<>>
    /\ NoModelYet

ChangeToPythonIndexing ==
    /\ pc = "parsed"
    /\ adj' = ToPythonIndexing(adj)
    /\ pc' = "indexed"
    /\ UNCHANGED <<N, ADJ, adj_matrix, N_edges, node1, node2, parseVars, potVars, dataVars, declVars>>

BuildMatrix ==
    /\ pc = "indexed"
    /\ IF AllIndicesOK(adj, N)
       THEN /\ adj_matrix' = MatrixOf(adj, N)
            /\ pc' = "matrix"
       ELSE /\ adj_matrix' = adj_matrix
            /\ pc' = "IndexError"
    /\ UNCHANGED <<N, ADJ, adj, N_edges, node1, node2, parseVars, potVars, dataVars, declVars>>

ExtractEdges ==
    /\ pc = "matrix"
    /\ N_edges' = CountOnes(adj_matrix, N)
    /\ node1' = [k \in DOMAIN Where(adj_matrix, N) |-> Where(adj_matrix, N)[k][1]]
    /\ node2' = [k \in DOMAIN Where(adj_matrix, N) |-> Where(adj_matrix, N)[k][2]]
    /\ pc' = "edges"
    /\ UNCHANGED <<N, ADJ, adj, adj_matrix, parseVars, potVars, dataVars, declVars>>

Next == ChangeToPythonIndexing \/ BuildMatrix \/ ExtractEdges

Spec == Init /\ [][Next]_vars

----------------------------------------------------------------------------
(* Adjacency extraction: C3 - C6 *)

MatrixBuilt == pc \in {"matrix", "edges"}

Symmetric == \A i \in Areas(N) : \A j \in Areas(N) : adj_matrix[i][j] = adj_matrix[j][i]

\* area j is listed by area i exactly when i is listed by j
Reciprocal ==
    \A i \in Areas(N) : \A j \in Areas(N) :
        ((j + 1) \in Range(ADJ[i])) <=> ((i + 1) \in Range(ADJ[j]))

UnorderedPairs ==
    {p \in SUBSET Areas(N) :
        \E i \in p : \E j \in p : i # j /\ p = {i, j} /\ adj_matrix[i][j] = 1}

SelfLoops == {i \in Areas(N) : adj_matrix[i][i] = 1}

\* C3 as stated: after extraction from any column of neighbour lists the
\* adjacency matrix is symmetric.
C3_SymmetricForAnyColumn == MatrixBuilt => Symmetric

\* C3 amended: the matrix holds a 1 at (i, j) only where area i's own row
\* lists j, so it is symmetric exactly when the neighbour lists are reciprocal.
C3_SymmetricIffReciprocal == MatrixBuilt => (Symmetric <=> Reciprocal)

C3_Witness ==
    /\ pc = "edges"
    /\ N = 3
    /\ Symmetric
    /\ Reciprocal
    /\ adj_matrix[0][2] = 1
    /\ adj_matrix[0][1] = 0

\* C4 as stated: for every symmetric adjacency matrix N_edges is exactly twice
\* the number of unordered neighbour pairs.
C4_TwiceUnorderedPairs ==
    (pc = "edges" /\ Symmetric) => N_edges = 2 * Cardinality(UnorderedPairs)

\* C4 amended: for every symmetric adjacency matrix N_edges is twice the
\* number of unordered pairs of distinct neighbours plus the number of areas
\* that list themselves (exactly twice the pairs when the diagonal is zero).
C4_TwicePairsPlusDiagonal ==
    (pc = "edges" /\ Symmetric) =>
        N_edges = 2 * Cardinality(UnorderedPairs) + Cardinality(SelfLoops)

C4_Witness ==
    /\ pc = "edges"
    /\ Symmetric
    /\ SelfLoops = {}
    /\ Cardinality(UnorderedPairs) = 2
    /\ N_edges = 4

EdgeAt(k) == <<node1[k], node2[k]>>

\* C5: node1 and node2 have length N_edges and list every directed edge
\* (i, j) with adj_matrix[i, j] == 1 exactly once, no other pair, in row-major
\* order; [[0,1],[1,0]] yields node1 = [0,1], node2 = [1,0], N_edges = 2.
C5_EdgeListIsEveryDirectedEdgeOnce ==
    pc = "edges" =>
        /\ Len(node1) = N_edges
        /\ Len(node2) = N_edges
        /\ {EdgeAt(k) : k \in 1 .. N_edges} =
               {rc \in Areas(N) \X Areas(N) : adj_matrix[rc[1]][rc[2]] = 1}
        /\ \A k \in 1 .. N_edges : \A l \in 1 .. N_edges :
               k < l => node1[k] * N + node2[k] < node1[l] * N + node2[l]
        /\ (N = 2 /\ adj_matrix = (0 :> (0 :> 0 @@ 1 :> 1) @@ 1 :> (0 :> 1 @@ 1 :> 0))) =>
               (node1 = <<0, 1>> /\ node2 = <<1, 0>> /\ N_edges = 2)

C5_Witness ==
    /\ pc = "edges"
    /\ N = 2
    /\ adj_matrix = (0 :> (0 :> 0 @@ 1 :> 1) @@ 1 :> (0 :> 1 @@ 1 :> 0))
    /\ node1 = <<0, 1>>
    /\ node2 = <<1, 0>>

\* C6: the 1-based indices are converted before the matrix is built: row a of
\* the matrix has a 1 at n-1 for every n in a's list and nowhere else; the
\* 1-based list [2,3] of area 0 becomes [1,2].
C6_IndexConversionBeforeMatrix ==
    /\ pc = "parsed" => (adj = ADJ /\ adj_matrix = <<>>)
    /\ pc = "indexed" => adj_matrix = <<>>
    /\ pc \in {"indexed", "matrix", "edges"} =>
           /\ \A a \in Areas(N) : \A k \in DOMAIN ADJ[a] : adj[a][k] = ADJ[a][k] - 1
           /\ ADJ[0] = <<2, 3>> => adj[0] = <<1, 2>>
    /\ pc # "IndexError"
    /\ MatrixBuilt =>
           \A a \in Areas(N) : \A c \in Areas(N) :
               adj_matrix[a][c] = (IF (c + 1) \in Range(ADJ[a]) THEN 1 ELSE 0)

C6_Witness ==
    /\ pc = "matrix"
    /\ ADJ[0] = <<2, 3>>
    /\ adj[0] = <<1, 2>>
    /\ adj_matrix[0] = (0 :> 0 @@ 1 :> 1 @@ 2 :> 1)

----------------------------------------------------------------------------
(* Parsing one entry of the ADJ column:                                    *)
(*   lambda x: [int(val) for val in x.strip("][").split(",")]              *)

\* Longest ADJ entry parsed.
MaxStr == 4

Chars == {"[", "]", ",", "1", "2", "x"}
Digits == {"1", "2"}
Brackets == {"[", "]"}

Strings(n) == UNION {[1 .. k -> Chars] : k \in 0 .. n}

\* str.strip(chars): drop the leading and the trailing characters that are in chars
RECURSIVE LStrip(_, _)
LStrip(s, chars) ==
    IF s # <<>> /\ Head(s) \in chars THEN LStrip(Tail(s), chars) ELSE s

RECURSIVE RStrip(_, _)
RStrip(s, chars) ==
    IF s # <<>> /\ s[Len(s)] \in chars THEN RStrip(SubSeq(s, 1, Len(s) - 1), chars) ELSE s

Strip(s, chars) == RStrip(LStrip(s, chars), chars)

\* str.split(sep): the pieces between the separators; "" splits to [""]
RECURSIVE SplitFrom(_, _, _)
SplitFrom(s, sep, cur) ==
    IF s = <<>> THEN <<cur>>
    ELSE IF Head(s) = sep THEN <<cur>> \o SplitFrom(Tail(s), sep, <<>>)
    ELSE SplitFrom(Tail(s), sep, Append(cur, Head(s)))

Split(s, sep) == SplitFrom(s, sep, <<>>)

DigitValue(c) == IF c = "1" THEN 1 ELSE 2

\* int(val) accepts a token of Chars exactly when it is a non-empty run of digits
IntOK(tok) == tok # <<>> /\ \A k \in DOMAIN tok : tok[k] \in Digits

RECURSIVE IntOf(_)
IntOf(tok) ==
    IF tok = <<>> THEN 0
    ELSE 10 * IntOf(SubSeq(tok, 1, Len(tok) - 1)) + DigitValue(tok[Len(tok)])

Tokens(str) == Split(Strip(str, Brackets), ",")

\* the list comprehension raises ValueError at the first token int() rejects
ParseRaises(str) == \E k \in DOMAIN Tokens(str) : ~IntOK(Tokens(str)[k])

ParseList(str) == [k \in DOMAIN Tokens(str) |-> IntOf(Tokens(str)[k])]

InitParse ==
    /\ pc = "raw"
    /\ x_str \in Strings(MaxStr)
    /\ row = <<>>
    /\ N = 0
    /\ ADJ = <<>>
    /\ adj = <<>>
    /\ adj_matrix = <<>>
    /\ N_edges = 0
    /\ node1 = <<>>
    /\ node2 = <<>>
    /\ rho = <<0, 1>>
    /\ phi = <<>>
    /\ potential = <<>>
    /\ NoModelYet

ParseRow ==
    /\ pc = "raw"
    /\ IF ParseRaises(x_str)
       THEN /\ row' = row
            /\ pc' = "ValueError"
       ELSE /\ row' = ParseList(x_str)
            /\ pc' = "row_parsed"
    /\ UNCHANGED <<x_str, adjVars, potVars, dataVars, declVars>>

NextParse == ParseRow

SpecParse == InitParse /\ [][NextParse]_vars

\* number of opening minus closing brackets, and whether a closing bracket
\* comes before its opening one
RECURSIVE Depths(_, _)
Depths(s, d) ==
    IF s = <<>> THEN <<d>>
    ELSE <<d>> \o Depths(Tail(s), d + (IF Head(s) = "[" THEN 1
                                       ELSE IF Head(s) = "]" THEN 0 - 1 ELSE 0))

UnbalancedBrackets(s) ==
    \/ Depths(s, 0)[Len(s) + 1] # 0
    \/ \E k \in 1 .. (Len(s) + 1) : Depths(s, 0)[k] < 0

NoBrackets(s) == SelectSeq(s, LAMBDA c : c \notin Brackets)

NonNumericToken(s) ==
    \E k \in DOMAIN Split(NoBrackets(s), ",") : ~IntOK(Split(NoBrackets(s), ",")[k])

Malformed(s) == UnbalancedBrackets(s) \/ NonNumericToken(s)

\* C7: parsing a malformed neighbour string (a non-numeric token, unbalanced
\* brackets) fails with a parsing error and never yields neighbour indices.
C7_MalformedRaises ==
    (pc \in {"row_parsed", "ValueError"} /\ Malformed(x_str)) => pc = "ValueError"

----------------------------------------------------------------------------
(* Exact real arithmetic: a real is <<numerator, denominator>> in lowest   *)
(* terms with a positive denominator.                                      *)

Abs(a) == IF a < 0 THEN 0 - a ELSE a

RECURSIVE GCD(_, _)
GCD(a, b) == IF b = 0 THEN a ELSE GCD(b, a % b)

Rat(n, d) ==
    LET g == GCD(Abs(n), Abs(d))
        sgn == IF d < 0 THEN 0 - 1 ELSE 1
    IN  <<(sgn * n) \div g, (sgn * d) \div g>>

RAdd(a, b) == Rat(a[1] * b[2] + b[1] * a[2], a[2] * b[2])
RSub(a, b) == Rat(a[1] * b[2] - b[1] * a[2], a[2] * b[2])
RMul(a, b) == Rat(a[1] * b[1], a[2] * b[2])
RSquare(a) == RMul(a, a)
RLess(a, b) == a[1] * b[2] < b[1] * a[2]

Zero == Rat(0, 1)
One == Rat(1, 1)
MinusHalf == Rat(0 - 1, 2)

\* .sum() of a one-dimensional array given as a sequence
RECURSIVE SumSeq(_)
SumSeq(s) == IF s = <<>> THEN Zero ELSE RAdd(Head(s), SumSeq(Tail(s)))

\* .sum() of an array indexed 0..n-1
RECURSIVE SumTo(_, _)
SumTo(v, n) == IF n = 0 THEN Zero ELSE RAdd(SumTo(v, n - 1), v[n - 1])

\* (phi[node1] - phi[node2]) ** 2 : fancy indexing by the two edge arrays
SquaredDiffs(p, n1, n2) ==
    [k \in DOMAIN n1 |-> RSquare(RSub(p[n1[k]], p[n2[k]]))]

\* phi ** 2
Squares(p) == [i \in DOMAIN p |-> RSquare(p[i])]

\* def icar_pairwise_diff(phi, node1, node2):
\*     return -0.5*((phi[node1]-phi[node2])**2).sum()
icar_pairwise_diff(p, n1, n2) ==
    RMul(MinusHalf, SumSeq(SquaredDiffs(p, n1, n2)))

\* Variant that adds the two endpoints of an edge instead of differencing them.
pairwise_diff_leroux_SumOfEndpoints(r, p, n1, n2) ==
    RMul(RMul(MinusHalf, r),
         SumSeq([k \in DOMAIN n1 |-> RSquare(RAdd(p[n1[k]], p[n2[k]]))]))

\* def pairwise_diff_leroux(rho, phi, node1, node2):
\*     return -0.5 * rho * ((phi[node1]-phi[node2]) ** 2).sum()
pairwise_diff_leroux(r, p, n1, n2) ==
    RMul(RMul(MinusHalf, r), SumSeq(SquaredDiffs(p, n1, n2)))

\* Variant whose ridge weight is rho instead of (1 - rho).
square_sum_RhoWeight(r, p) ==
    RMul(RMul(MinusHalf, r), SumTo(Squares(p), Cardinality(DOMAIN p)))

\* def square_sum(rho, phi):
\*     return -0.5 * (1-rho) * (phi ** 2).sum()
square_sum(r, p) ==
    RMul(RMul(MinusHalf, RSub(One, r)), SumTo(Squares(p), Cardinality(DOMAIN p)))

\* Values the mixing parameter and the entries of a latent vector are drawn from.
RhoVals == {Rat(0, 1), Rat(1, 2), Rat(1, 1)}
PhiVals == {Rat(0 - 1, 2), Rat(0, 1), Rat(1, 1)}

\* node1, node2 of the adjacency the lists a describe (cells of the data loading)
EdgesOf(a, n) == Where(MatrixOf(ToPythonIndexing(a), n), n)

\* State after the data cells have run, at a point (rho, phi) of the
\* parameter space.
InitPot ==
    /\ pc = "edges"
    /\ N \in 1 .. (NAreas - 1)
    /\ ADJ \in [Areas(N) -> NbrLists(N)]
    /\ adj = ToPythonIndexing(ADJ)
    /\ adj_matrix = MatrixOf(adj, N)
    /\ N_edges = CountOnes(adj_matrix, N)
    /\ node1 = [k \in DOMAIN EdgesOf(ADJ, N) |-> EdgesOf(ADJ, N)[k][1]]
    /\ node2 = [k \in DOMAIN EdgesOf(ADJ, N) |-> EdgesOf(ADJ, N)[k][2]]
    /\ x_str = <<>>
    /\ row = <<>>
    /\ rho \in RhoVals
    /\ phi \in [Areas(N) -> PhiVals]
    /\ potential = <<>>
    /\ NoModelYet

\* the two potentials of the Leroux prior
EvalLeroux ==
    /\ pc = "edges"
    /\ potential' = [pairwise_diff_leroux |-> pairwise_diff_leroux(rho, phi, node1, node2),
                     square_sum |-> square_sum(rho, phi)]
    /\ pc' = "leroux"
    /\ UNCHANGED <<adjVars, parseVars, rho, phi, dataVars, declVars>>

\* the potential of the ICAR prior
EvalIcar ==
    /\ pc = "edges"
    /\ potential' = [icar_pairwise_diff |-> icar_pairwise_diff(phi, node1, node2)]
    /\ pc' = "icar"
    /\ UNCHANGED <<adjVars, parseVars, rho, phi, dataVars, declVars>>

NextPot == EvalLeroux \/ EvalIcar

SpecPot == InitPot /\ [][NextPot]_vars

\* sum over the unordered pairs {i, j} of distinct neighbours of (phi[i] - phi[j])^2
RECURSIVE SumOverPairs(_)
SumOverPairs(P) ==
    IF P = {} THEN Zero
    ELSE LET q == CHOOSE z \in P : TRUE
             i == CHOOSE a \in q : TRUE
             j == CHOOSE b \in q : b # i
         IN  RAdd(RSquare(RSub(phi[i], phi[j])), SumOverPairs(P \ {q}))

\* C1: on the double-counted edge list of a symmetric adjacency matrix without
\* self-loops, pairwise_diff equals rho * (-1/2) * the sum over UNORDERED
\* neighbour pairs of (phi[i] - phi[j])^2 (the conventional ICAR log-density
\* scaled by rho).
C1_EqualsConventionalICAR ==
    (pc = "leroux" /\ Symmetric /\ SelfLoops = {}) =>
        potential.pairwise_diff_leroux =
            RMul(RMul(rho, MinusHalf), SumOverPairs(UnorderedPairs))

\* directed-edge sums written out cell by cell
EdgeCells == {rc \in Areas(N) \X Areas(N) : adj_matrix[rc[1]][rc[2]] = 1}

RECURSIVE SumOverCells(_)
SumOverCells(C) ==
    IF C = {} THEN Zero
    ELSE LET rc == CHOOSE z \in C : TRUE
         IN  RAdd(RSquare(RSub(phi[rc[1]], phi[rc[2]])), SumOverCells(C \ {rc}))

RECURSIVE SumSquaresOver(_)
SumSquaresOver(S) ==
    IF S = {} THEN Zero
    ELSE LET i == CHOOSE z \in S : TRUE
         IN  RAdd(RSquare(phi[i]), SumSquaresOver(S \ {i}))

LerouxTotal == RAdd(potential.pairwise_diff_leroux, potential.square_sum)

\* C2: at rho = 1 square_sum is exactly 0 and the two Leroux potentials add up
\* to the pure ICAR term -0.5 * sum_k (phi[node1[k]] - phi[node2[k]])^2; at
\* rho = 0 pairwise_diff_leroux is exactly 0 and they add up to the ridge term
\* -0.5 * sum_i phi[i]^2.
C2_LerouxEndpoints ==
    pc = "leroux" =>
        /\ rho = One =>
               /\ potential.square_sum = Zero
               /\ LerouxTotal = potential.pairwise_diff_leroux
               /\ LerouxTotal = RMul(MinusHalf, SumOverCells(EdgeCells))
        /\ rho = Zero =>
               /\ potential.pairwise_diff_leroux = Zero
               /\ LerouxTotal = potential.square_sum
               /\ LerouxTotal = RMul(MinusHalf, SumSquaresOver(Areas(N)))

C2_Witness ==
    /\ pc = "leroux"
    /\ rho = One
    /\ potential.square_sum = Zero
    /\ RLess(potential.pairwise_diff_leroux, Zero)
    /\ RLess(Zero, SumSquaresOver(Areas(N)))

----------------------------------------------------------------------------
(* Arrays with numpy broadcasting.  An array is [shape, val]: rank 0 holds *)
(* a real, rank 1 a function over 0..n-1, rank 2 a function of functions.  *)

Max(a, b) == IF a >= b THEN a ELSE b

Scalar(v) == [shape |-> <<>>, val |-> v]
Vector(f) == [shape |-> <<Cardinality(DOMAIN f)>>, val |-> f]
Matrix(r, c, f) == [shape |-> <<r, c>>, val |-> f]

\* the shape aligned to two axes from the right, missing axes of length 1
Pad(sh) == IF Len(sh) = 0 THEN <<1, 1>> ELSE IF Len(sh) = 1 THEN <<1, sh[1]>> ELSE sh

\* Variant that repeats an (n, 1) column along the wrong axis.
Get_Transposed(A, i, j) ==
    IF Len(A.shape) = 0 THEN A.val
    ELSE IF Len(A.shape) = 1 THEN A.val[IF A.shape[1] = 1 THEN 0 ELSE j]
    ELSE IF A.shape[2] = 1 /\ j < A.shape[1] THEN A.val[j][0]
    ELSE A.val[IF A.shape[1] = 1 THEN 0 ELSE i][IF A.shape[2] = 1 THEN 0 ELSE j]

\* the entry of A that broadcasting puts at (i, j): an axis of length 1 is repeated
Get(A, i, j) ==
    IF Len(A.shape) = 0 THEN A.val
    ELSE IF Len(A.shape) = 1 THEN A.val[IF A.shape[1] = 1 THEN 0 ELSE j]
    ELSE A.val[IF A.shape[1] = 1 THEN 0 ELSE i][IF A.shape[2] = 1 THEN 0 ELSE j]

\* shapes broadcast when, axis by axis, they are equal or one of them is 1
BroadcastOK(sa, sb) ==
    \A d \in 1 .. 2 : Pad(sa)[d] = Pad(sb)[d] \/ Pad(sa)[d] = 1 \/ Pad(sb)[d] = 1

ShapeError == [shape |-> <<0>>, val |-> <<>>]

Apply(op, a, b) == IF op = "+" THEN RAdd(a, b) ELSE RMul(a, b)

Elementwise(A, B, op) ==
    IF A = ShapeError \/ B = ShapeError \/ ~BroadcastOK(A.shape, B.shape) THEN ShapeError
    ELSE LET r == Max(Pad(A.shape)[1], Pad(B.shape)[1])
             c == Max(Pad(A.shape)[2], Pad(B.shape)[2])
             rank == Max(Len(A.shape), Len(B.shape))
         IN  IF rank = 0 THEN Scalar(Apply(op, A.val, B.val))
             ELSE IF rank = 1
                 THEN Vector([j \in Areas(c) |-> Apply(op, Get(A, 0, j), Get(B, 0, j))])
             ELSE Matrix(r, c, [i \in Areas(r) |->
                                  [j \in Areas(c) |-> Apply(op, Get(A, i, j), Get(B, i, j))]])

TAdd(A, B) == Elementwise(A, B, "+")
TMul(A, B) == Elementwise(A, B, "*")

\* at.exp(eta): exp is kept symbolic
Exp(v) == <<"exp", v>>

TExp(A) ==
    IF A = ShapeError THEN ShapeError
    ELSE IF Len(A.shape) = 0 THEN Scalar(Exp(A.val))
    ELSE IF Len(A.shape) = 1 THEN Vector([j \in DOMAIN A.val |-> Exp(A.val[j])])
    ELSE Matrix(A.shape[1], A.shape[2],
                [i \in DOMAIN A.val |-> [j \in DOMAIN A.val[i] |-> Exp(A.val[i][j])]])

\* pm.math.sum(A): the sum of all entries
RECURSIVE SumCells(_, _)
SumCells(A, k) ==
    IF k = 0 THEN Zero
    ELSE RAdd(SumCells(A, k - 1),
              Get(A, (k - 1) \div Pad(A.shape)[2], (k - 1) % Pad(A.shape)[2]))

TSum(A) == SumCells(A, Pad(A.shape)[1] * Pad(A.shape)[2])

\* the per-area values of an effect declared with dims "num_areas" (shape (N,))
\* or ("num_areas", "dummy") (shape (N, 1)), as indexed by phi[node1]
AreaVec(A) ==
    IF Len(A.shape) = 1 THEN A.val ELSE [i \in Areas(A.shape[1]) |-> A.val[i][0]]

ISqrt(n) == CHOOSE k \in 0 .. n : k * k = n
RSqrt(a) == Rat(ISqrt(a[1]), ISqrt(a[2]))
RInv(a) == Rat(a[2], a[1])

\* 1/at.sqrt(tau)
SigmaOf(tau) == Scalar(RInv(RSqrt(tau.val)))

----------------------------------------------------------------------------
(* float64 arithmetic, where rounding decides a result: the length of      *)
(* np.arange.                                                              *)

\* Natural numbers of any size: sequences of bits, least significant first,
\* without leading zeros (the empty sequence is 0).
RECURSIVE BNorm(_)
BNorm(a) ==
    IF a = <<>> THEN <<>>
    ELSE IF a[Len(a)] = 0 THEN BNorm(SubSeq(a, 1, Len(a) - 1))
    ELSE a

RECURSIVE BFromInt(_)
BFromInt(n) == IF n = 0 THEN <<>> ELSE <<n % 2>> \o BFromInt(n \div 2)

RECURSIVE BToInt(_)
BToInt(a) == IF a = <<>> THEN 0 ELSE a[1] + 2 * BToInt(Tail(a))

BBit(a, k) == IF k <= Len(a) THEN a[k] ELSE 0
BTail(a) == IF a = <<>> THEN <<>> ELSE Tail(a)

RECURSIVE BAddC(_, _, _)
BAddC(a, b, c) ==
    IF a = <<>> /\ b = <<>> THEN (IF c = 0 THEN <<>> ELSE <<1>>)
    ELSE LET s == BBit(a, 1) + BBit(b, 1) + c
         IN  <<s % 2>> \o BAddC(BTail(a), BTail(b), s \div 2)

BAdd(a, b) == BAddC(a, b, 0)

\* a - b for a >= b
RECURSIVE BSubB(_, _, _)
BSubB(a, b, br) ==
    IF a = <<>> THEN <<>>
    ELSE LET d == a[1] - BBit(b, 1) - br
         IN  <<d % 2>> \o BSubB(Tail(a), BTail(b), IF d < 0 THEN 1 ELSE 0)

BSub(a, b) == BNorm(BSubB(a, b, 0))

RECURSIVE BLessFrom(_, _, _)
BLessFrom(a, b, k) ==
    IF k = 0 THEN FALSE
    ELSE IF a[k] # b[k] THEN a[k] < b[k]
    ELSE BLessFrom(a, b, k - 1)

BLess(a, b) == IF Len(a) # Len(b) THEN Len(a) < Len(b) ELSE BLessFrom(a, b, Len(a))

BShl(a, k) == IF a = <<>> THEN <<>> ELSE [i \in 1 .. k |-> 0] \o a
BShr(a, k) == IF k >= Len(a) THEN <<>> ELSE SubSeq(a, k + 1, Len(a))

\* One step of the long division of a by b > 0: bit s.k of a is brought down.
BDivStep(a, b, s) ==
    IF s.k = 0 THEN s
    ELSE LET r1 == BNorm(<<a[s.k]>> \o s.r)
         IN  IF BLess(r1, b)
                 THEN [k |-> s.k - 1, q |-> <<0>> \o s.q, r |-> r1]
                 ELSE [k |-> s.k - 1, q |-> <<1>> \o s.q, r |-> BSub(r1, b)]

BDivStep4(a, b, s) == BDivStep(a, b, BDivStep(a, b, BDivStep(a, b, BDivStep(a, b, s))))

RECURSIVE BDivLoop(_, _, _)
BDivLoop(a, b, s) ==
    IF s.k = 0 THEN s
    ELSE BDivLoop(a, b, BDivStep4(a, b, BDivStep4(a, b, s)))

\* <<quotient, remainder>> of a by b > 0
BDivMod(a, b) ==
    LET s == BDivLoop(a, b, [k |-> Len(a), q |-> <<>>, r |-> <<>>])
    IN  <<BNorm(s.q), s.r>>

\* float64: 53 significant bits; a value is m * 2^e with m of exactly 53 bits
\* (or m = 0)
Mantissa == 53
\* extra quotient bits a division is carried to before it is rounded
GuardBits == 64

FZero == [m |-> <<>>, e |-> 0]

\* round (n + f) * 2^e to nearest, ties to even, where 0 < f < 1 iff sticky
FRound(n, e, sticky) ==
    IF n = <<>> THEN FZero
    ELSE IF Len(n) <= Mantissa
        THEN [m |-> BShl(n, Mantissa - Len(n)), e |-> e - (Mantissa - Len(n))]
    ELSE LET k == Len(n) - Mantissa
             kept == BShr(n, k)
             low == sticky \/ \E i \in 1 .. (k - 1) : n[i] = 1
             up == n[k] = 1 /\ (low \/ kept[1] = 1)
             m1 == IF up THEN BAdd(kept, <<1>>) ELSE kept
         IN  IF Len(m1) > Mantissa
                 THEN [m |-> BShr(m1, 1), e |-> e + k + 1]
                 ELSE [m |-> m1, e |-> e + k]

\* the double nearest to the decimal literal q[1] / q[2] (both positive)
FromRat(q) ==
    LET qr == BDivMod(BShl(BFromInt(q[1]), GuardBits), BFromInt(q[2]))
    IN  FRound(qr[1], 0 - GuardBits, qr[2] # <<>>)

\* a - b in float64, for a >= b >= 0
FSub(a, b) ==
    LET e0 == IF a.e < b.e THEN a.e ELSE b.e
    IN  FRound(BSub(BShl(a.m, a.e - e0), BShl(b.m, b.e - e0)), e0, FALSE)

\* a / b in float64, for a >= 0, b > 0
FDiv(a, b) ==
    LET qr == BDivMod(BShl(a.m, GuardBits), b.m)
    IN  FRound(qr[1], a.e - b.e - GuardBits, qr[2] # <<>>)

\* ceil of a float64 >= 0, as an integer
FCeil(a) ==
    IF a.m = <<>> THEN 0
    ELSE IF a.e >= 0 THEN BToInt(BShl(a.m, a.e))
    ELSE BToInt(BShr(a.m, 0 - a.e))
            + (IF \E i \in 1 .. (0 - a.e) : BBit(a.m, i) = 1 THEN 1 ELSE 0)

\* Ceiling of the exact quotient (stop - start) / step.
arange_len_ExactReals(start, stop, step) ==
    LET q == RMul(RSub(stop, start), RInv(step))
    IN  0 - ((0 - q[1]) \div q[2])

\* the length np.arange gives its result: ceil((stop - start) / step), with
\* the subtraction and the division done in float64
arange_len(start, stop, step) ==
    FCeil(FDiv(FSub(FromRat(stop), FromRat(start)), FromRat(step)))

\* np.arange(start, stop, step): the values start + j * step
arange(start, stop, step) ==
    Vector([j \in Areas(arange_len(start, stop, step)) |->
               RAdd(start, RMul(Rat(j, 1), step))])

----------------------------------------------------------------------------
(* The generator of the synthetic spatio-temporal arrays.                  *)

\* multipler = np.arange(1.0, 1.3, step=0.05)
GrowthStart == Rat(1, 1)
GrowthStop == Rat(13, 10)
GrowthStep == Rat(1, 20)

\* scale=0.1 of the noise of the covariate and of the offset
NoiseScale == Rat(1, 10)

\* Variant that centres the time index on 2.
time_index_MinusTwo(n, t) ==
    Matrix(n, t, [i \in Areas(n) |-> [j \in Areas(t) |-> Rat(j - 2, 1)]])

\* t_diff[i, ] = np.arange(T) - 3, for every area i
time_index(n, t) ==
    Matrix(n, t, [i \in Areas(n) |-> [j \in Areas(t) |-> Rat(j - 3, 1)]])

\* lam=y[i]*multipler[j]*random_slope
poisson_lam(i, j, slope) == RMul(RMul(y.val[i], multipler.val[j]), slope)

\* Variant that scales the centre of the covariate by the growth factor.
x_time_loc_Scaled(i, j) == RMul(x.val[i], multipler.val[j])

\* loc=x[i]
x_time_loc(i, j) == x.val[i]

\* loc=logE[i]*multipler[j]
log_offset_loc(i, j) == RMul(logE.val[i], multipler.val[j])

\* np.random.poisson raises ValueError("lam < 0") on a negative rate
PoissonRaises(lam) == RLess(lam, Zero)

\* an outcome of np.random.poisson(lam): the non-negative integer k, and 0
\* when the rate is 0
PoissonDraw(lam, k) == IF lam = Zero THEN Zero ELSE Rat(k, 1)

\* an outcome of np.random.normal(loc, scale): z standard deviations from loc
NormalDraw(loc, scale, z) == RAdd(loc, RMul(z, scale))

\* Outcomes the random draws are given: np.random.normal(loc=0, scale=0.15)
\* (0, one and minus 7.3 standard deviations), the standardised noise of the
\* covariate and the offset, and the Poisson counts.
SlopeNoise == {Rat(0, 1), Rat(3, 20), Rat(0 - 11, 10)}
NormalNoise == {Rat(0, 1), Rat(0 - 2, 1)}
PoissonOutcomes == {0, 12}

\* Values of the CANCER column the generator is run on.
BaseCounts == {Rat(0, 1), Rat(10, 1)}

----------------------------------------------------------------------------
(* The model cells.                                                        *)

RV(name, dist, dims) == [name |-> name, dist |-> dist, dims |-> dims]
Pot(name, fn, args) == [name |-> name, fn |-> fn, args |-> args]

\* Variant that declares theta without dims="num_areas" (one scalar effect).
bym_model_ScalarTheta ==
    [coords |-> [num_areas |-> N],
     free |-> <<RV("tau_theta", "Gamma", <<>>),
                RV("tau_phi", "Gamma", <<>>),
                RV("theta", "Normal", <<>>),
                RV("phi", "Flat", <<"num_areas">>),
                RV("beta0", "Normal", <<>>),
                RV("beta1", "Normal", <<>>)>>,
     deterministics |-> <<"sigma_phi", "eta">>,
     potentials |-> <<Pot("spatial_diff", "icar_pairwise_diff", <<"phi">>),
                      Pot("zero_sum_theta", "zero_constraint", <<"theta">>),
                      Pot("zero_sum_phi", "zero_constraint", <<"phi">>)>>,
     observed |-> [name |-> "obs", dist |-> "Poisson", mu |-> "exp(eta)",
                   data |-> y, dims |-> <<"num_areas">>]]

\* with pm.Model(coords={"num_areas": np.arange(N)}) as bym_model
bym_model ==
    [coords |-> [num_areas |-> N],
     free |-> <<RV("tau_theta", "Gamma", <<>>),
                RV("tau_phi", "Gamma", <<>>),
                RV("theta", "Normal", <<"num_areas">>),
                RV("phi", "Flat", <<"num_areas">>),
                RV("beta0", "Normal", <<>>),
                RV("beta1", "Normal", <<>>)>>,
     deterministics |-> <<"sigma_phi", "eta">>,
     potentials |-> <<Pot("spatial_diff", "icar_pairwise_diff", <<"phi">>),
                      Pot("zero_sum_theta", "zero_constraint", <<"theta">>),
                      Pot("zero_sum_phi", "zero_constraint", <<"phi">>)>>,
     observed |-> [name |-> "obs", dist |-> "Poisson", mu |-> "exp(eta)",
                   data |-> y, dims |-> <<"num_areas">>]]

\* with pm.Model(coords={"num_areas": np.arange(N)}) as leroux_model
leroux_model ==
    [coords |-> [num_areas |-> N],
     free |-> <<RV("tau_phi", "Gamma", <<>>),
                RV("rho", "Beta", <<>>),
                RV("phi", "Flat", <<"num_areas">>),
                RV("beta0", "Normal", <<>>),
                RV("beta1", "Normal", <<>>)>>,
     deterministics |-> <<"sigma_phi", "eta">>,
     potentials |-> <<Pot("spatial_diff", "pairwise_diff_leroux", <<"rho", "phi">>),
                      Pot("square_sum", "square_sum", <<"rho", "phi">>),
                      Pot("zero_sum_phi", "zero_constraint", <<"phi">>)>>,
     observed |-> [name |-> "obs", dist |-> "Poisson", mu |-> "exp(eta)",
                   data |-> y, dims |-> <<"num_areas">>]]

\* Variant whose second zero-sum term is evaluated on phi again.
st_leroux_model_SumOfPhiTwice ==
    [coords |-> [num_times |-> T, num_areas |-> N, dummy |-> 1],
     free |-> <<RV("tau_phi", "Gamma", <<>>),
                RV("rho_intercept", "Beta", <<>>),
                RV("phi", "Flat", <<"num_areas", "dummy">>),
                RV("tau_delta", "Gamma", <<>>),
                RV("rho_slope", "Beta", <<>>),
                RV("delta", "Flat", <<"num_areas", "dummy">>),
                RV("beta0", "Normal", <<>>),
                RV("beta1", "Normal", <<>>),
                RV("alpha", "Normal", <<>>)>>,
     deterministics |-> <<"sigma_phi", "sigma_delta", "eta">>,
     potentials |-> <<Pot("spatial_diff_intercept", "pairwise_diff_leroux", <<"rho_intercept", "phi">>),
                      Pot("square_sum_intercept", "square_sum", <<"rho_intercept", "phi">>),
                      Pot("spatial_diff_slope", "pairwise_diff_leroux", <<"rho_slope", "delta">>),
                      Pot("square_sum_slope", "square_sum", <<"rho_slope", "delta">>),
                      Pot("zero_sum_phi", "zero_constraint", <<"phi">>),
                      Pot("zero_sum_delta", "zero_constraint", <<"phi">>)>>,
     observed |-> [name |-> "obs", dist |-> "Poisson", mu |-> "exp(eta)",
                   data |-> y_time, dims |-> <<"num_areas", "num_times">>]]

\* with pm.Model(coords=st_coords) as st_leroux_model
st_leroux_model ==
    [coords |-> [num_times |-> T, num_areas |-> N, dummy |-> 1],
     free |-> <<RV("tau_phi", "Gamma", <<>>),
                RV("rho_intercept", "Beta", <<>>),
                RV("phi", "Flat", <<"num_areas", "dummy">>),
                RV("tau_delta", "Gamma", <<>>),
                RV("rho_slope", "Beta", <<>>),
                RV("delta", "Flat", <<"num_areas", "dummy">>),
                RV("beta0", "Normal", <<>>),
                RV("beta1", "Normal", <<>>),
                RV("alpha", "Normal", <<>>)>>,
     deterministics |-> <<"sigma_phi", "sigma_delta", "eta">>,
     potentials |-> <<Pot("spatial_diff_intercept", "pairwise_diff_leroux", <<"rho_intercept", "phi">>),
                      Pot("square_sum_intercept", "square_sum", <<"rho_intercept", "phi">>),
                      Pot("spatial_diff_slope", "pairwise_diff_leroux", <<"rho_slope", "delta">>),
                      Pot("square_sum_slope", "square_sum", <<"rho_slope", "delta">>),
                      Pot("zero_sum_phi", "zero_constraint", <<"phi">>),
                      Pot("zero_sum_delta", "zero_constraint", <<"delta">>)>>,
     observed |-> [name |-> "obs", dist |-> "Poisson", mu |-> "exp(eta)",
                   data |-> y_time, dims |-> <<"num_areas", "num_times">>]]

\* zero_constraint = pm.Normal.dist(mu=0.0, sigma=np.sqrt(0.001)): its variance
ZeroConstraintVariance == Rat(1, 1000)

\* Variant with the sign of the quadratic term flipped.
logp_zero_constraint_PlusSign(s) ==
    [quadratic |-> RMul(RMul(Rat(1, 2), RInv(ZeroConstraintVariance)), RSquare(s)),
     constant |-> "-log(sigma*sqrt(2*pi))"]

\* pm.logp(zero_constraint, s) = -s^2 / (2 * variance) - log(sigma * sqrt(2 pi));
\* the normalising constant does not depend on s and is kept symbolic
logp_zero_constraint(s) ==
    [quadratic |-> RMul(RMul(MinusHalf, RInv(ZeroConstraintVariance)), RSquare(s)),
     constant |-> "-log(sigma*sqrt(2*pi))"]

\* the value of one pm.Potential at the point pt
PotentialValue(q, pt) ==
    IF q.fn = "icar_pairwise_diff"
        THEN icar_pairwise_diff(AreaVec(pt[q.args[1]]), node1, node2)
    ELSE IF q.fn = "pairwise_diff_leroux"
        THEN pairwise_diff_leroux(pt[q.args[1]].val, AreaVec(pt[q.args[2]]), node1, node2)
    ELSE IF q.fn = "square_sum"
        THEN square_sum(pt[q.args[1]].val, AreaVec(pt[q.args[2]]))
    ELSE logp_zero_constraint(TSum(pt[q.args[1]]))

PotentialValues(m, pt) ==
    [nm \in {m.potentials[k].name : k \in DOMAIN m.potentials} |->
        PotentialValue(CHOOSE q \in Range(m.potentials) : q.name = nm, pt)]

\* eta = logE + beta0 + beta1*x + sigma_phi*phi + theta
bym_eta(pt) ==
    TAdd(TAdd(TAdd(TAdd(logE, pt.beta0), TMul(pt.beta1, x)),
              TMul(SigmaOf(pt.tau_phi), pt.phi)),
         pt.theta)

\* eta = logE + beta0 + beta1*x + sigma_phi*phi
leroux_eta(pt) ==
    TAdd(TAdd(TAdd(logE, pt.beta0), TMul(pt.beta1, x)),
         TMul(SigmaOf(pt.tau_phi), pt.phi))

\* eta = log_offset_time + beta0 + beta1*x_time + phi*sigma_phi
\*       + (alpha+delta*sigma_delta)*t_diff
st_leroux_eta(pt) ==
    TAdd(TAdd(TAdd(TAdd(log_offset_time, pt.beta0), TMul(pt.beta1, x_time)),
              TMul(pt.phi, SigmaOf(pt.tau_phi))),
         TMul(TAdd(pt.alpha, TMul(pt.delta, SigmaOf(pt.tau_delta))), t_diff))

\* every area lists every other area
FullyConnected(n) == [i \in Areas(n) |-> SetToAscSeq((1 .. n) \ {i + 1})]

\* Values the CANCER column is read with, the entries of the effect vectors
\* and the scalar parameters are drawn from.
YVals == {Rat(0 - 1, 1), Rat(3, 2), Rat(2, 1)}
EffVals == {Rat(0 - 1, 2), Rat(1, 1)}
ScalarPoints ==
    {[beta0 |-> Rat(1, 1), beta1 |-> Rat(2, 1), alpha |-> Rat(0 - 1, 1),
      tau_phi |-> Rat(4, 1), tau_delta |-> Rat(1, 4), tau_theta |-> Rat(1, 1),
      rho |-> Rat(1, 2), rho_intercept |-> Rat(1, 2), rho_slope |-> Rat(1, 1)],
     [beta0 |-> Rat(0 - 1, 2), beta1 |-> Rat(1, 3), alpha |-> Rat(3, 1),
      tau_phi |-> Rat(1, 9), tau_delta |-> Rat(4, 1), tau_theta |-> Rat(4, 1),
      rho |-> Rat(0, 1), rho_intercept |-> Rat(1, 1), rho_slope |-> Rat(1, 3)]}
DataSets == {1, 2}

ScalarsOf(sc) == [k \in DOMAIN sc |-> Scalar(sc[k])]

\* State after the data cells of a notebook have run (the spatio-temporal
\* notebook's cell of synthetic arrays included).
InitDecl ==
    /\ pc = "data"
    /\ multipler = arange(GrowthStart, GrowthStop, GrowthStep)
    /\ T = multipler.shape[1]
    /\ N \in 2 .. (NAreas - 1)
    /\ ADJ = FullyConnected(N)
    /\ adj = ToPythonIndexing(ADJ)
    /\ adj_matrix = MatrixOf(adj, N)
    /\ N_edges = CountOnes(adj_matrix, N)
    /\ node1 = [k \in DOMAIN EdgesOf(ADJ, N) |-> EdgesOf(ADJ, N)[k][1]]
    /\ node2 = [k \in DOMAIN EdgesOf(ADJ, N) |-> EdgesOf(ADJ, N)[k][2]]
    /\ x_str = <<>>
    /\ row = <<>>
    /\ rho = <<0, 1>>
    /\ phi = <<>>
    /\ potential = <<>>
    /\ \E f \in [Areas(N) -> YVals] : y = Vector(f)
    /\ \E d \in DataSets :
        /\ x = Vector([i \in Areas(N) |-> Rat(i + d, 10)])
        /\ logE = Vector([i \in Areas(N) |-> Rat(2 * i - d, 3)])
        /\ y_time = Matrix(N, T, [i \in Areas(N) |-> [j \in Areas(T) |-> Rat(i + 2 * j + d, 1)]])
        /\ x_time = Matrix(N, T, [i \in Areas(N) |-> [j \in Areas(T) |-> Rat(d + 2 * i + 5 * j, 10)]])
        /\ log_offset_time =
               Matrix(N, T, [i \in Areas(N) |-> [j \in Areas(T) |-> Rat(3 * i - j + d, 7)]])
    /\ t_diff = time_index(N, T)
    /\ random_slope = One
    /\ loop_i = N
    /\ draw_args = <<>>
    /\ model = <<>>
    /\ point = <<>>
    /\ eta = <<>>
    /\ mu = <<>>

DeclareBym ==
    /\ pc = "data"
    /\ model' = bym_model
    /\ pc' = "bym_model"
    /\ UNCHANGED <<adjVars, parseVars, potVars, dataVars, point, eta, mu>>

DeclareLeroux ==
    /\ pc = "data"
    /\ model' = leroux_model
    /\ pc' = "leroux_model"
    /\ UNCHANGED <<adjVars, parseVars, potVars, dataVars, point, eta, mu>>

DeclareStLeroux ==
    /\ pc = "data"
    /\ model' = st_leroux_model
    /\ pc' = "st_leroux_model"
    /\ UNCHANGED <<adjVars, parseVars, potVars, dataVars, point, eta, mu>>

\* pm.sample() evaluates the declared graph at points of the parameter space
SampleBym ==
    /\ pc = "bym_model"
    /\ \E sc \in ScalarPoints, f \in [Areas(N) -> EffVals], g \in [Areas(N) -> EffVals] :
        point' = ScalarsOf(sc) @@ [phi |-> Vector(f), theta |-> Vector(g)]
    /\ eta' = bym_eta(point')
    /\ mu' = TExp(eta')
    /\ potential' = PotentialValues(model, point')
    /\ pc' = "bym_sampled"
    /\ UNCHANGED <<adjVars, parseVars, rho, phi, dataVars, model>>

SampleLeroux ==
    /\ pc = "leroux_model"
    /\ \E sc \in ScalarPoints, f \in [Areas(N) -> EffVals] :
        point' = ScalarsOf(sc) @@ [phi |-> Vector(f)]
    /\ eta' = leroux_eta(point')
    /\ mu' = TExp(eta')
    /\ potential' = PotentialValues(model, point')
    /\ pc' = "leroux_sampled"
    /\ UNCHANGED <<adjVars, parseVars, rho, phi, dataVars, model>>

SampleStLeroux ==
    /\ pc = "st_leroux_model"
    /\ \E sc \in ScalarPoints, f \in [Areas(N) -> EffVals], g \in [Areas(N) -> EffVals] :
        point' = ScalarsOf(sc) @@ [phi |-> Matrix(N, 1, [i \in Areas(N) |-> [j \in {0} |-> f[i]]]),
                                   delta |-> Matrix(N, 1, [i \in Areas(N) |-> [j \in {0} |-> g[i]]])]
    /\ eta' = st_leroux_eta(point')
    /\ mu' = TExp(eta')
    /\ potential' = PotentialValues(model, point')
    /\ pc' = "st_leroux_sampled"
    /\ UNCHANGED <<adjVars, parseVars, rho, phi, dataVars, model>>

NextDecl ==
    \/ DeclareBym
    \/ DeclareLeroux
    \/ DeclareStLeroux
    \/ SampleBym
    \/ SampleLeroux
    \/ SampleStLeroux

SpecDecl == InitDecl /\ [][NextDecl]_vars

----------------------------------------------------------------------------
(* The cell that generates the synthetic arrays, run on a base dataset.    *)

InitSynth ==
    /\ pc = "base"
    /\ N \in 1 .. (NAreas - 1)
    /\ ADJ = FullyConnected(N)
    /\ adj = ToPythonIndexing(ADJ)
    /\ adj_matrix = MatrixOf(adj, N)
    /\ N_edges = CountOnes(adj_matrix, N)
    /\ node1 = [k \in DOMAIN EdgesOf(ADJ, N) |-> EdgesOf(ADJ, N)[k][1]]
    /\ node2 = [k \in DOMAIN EdgesOf(ADJ, N) |-> EdgesOf(ADJ, N)[k][2]]
    /\ x_str = <<>>
    /\ row = <<>>
    /\ rho = <<0, 1>>
    /\ phi = <<>>
    /\ potential = <<>>
    /\ \E f \in [Areas(N) -> BaseCounts] : y = Vector(f)
    /\ \E d \in DataSets :
        /\ x = Vector([i \in Areas(N) |-> Rat(i + d, 10)])
        /\ logE = Vector([i \in Areas(N) |-> Rat(2 * i - d, 3)])
    /\ T = 0
    /\ y_time = <<>>
    /\ x_time = <<>>
    /\ log_offset_time = <<>>
    /\ t_diff = <<>>
    /\ multipler = <<>>
    /\ random_slope = <<>>
    /\ loop_i = 0
    /\ draw_args = <<>>
    /\ model = <<>>
    /\ point = <<>>
    /\ eta = <<>>
    /\ mu = <<>>

\* multipler, T and the empty arrays
GrowthFactors ==
    /\ pc = "base"
    /\ multipler' = arange(GrowthStart, GrowthStop, GrowthStep)
    /\ T' = multipler'.shape[1]
    /\ y_time' = Matrix(N, T', [i \in Areas(N) |-> [j \in Areas(T') |-> Zero]])
    /\ x_time' = Matrix(N, T', [i \in Areas(N) |-> [j \in Areas(T') |-> Zero]])
    /\ log_offset_time' = Matrix(N, T', [i \in Areas(N) |-> [j \in Areas(T') |-> Zero]])
    /\ loop_i' = 0
    /\ pc' = "arrays"
    /\ UNCHANGED <<adjVars, parseVars, potVars, y, x, logE, t_diff, random_slope,
                   draw_args, declVars>>

\* one pass of `for i in range(N)`: the slope of area i, then its T cells;
\* the first negative Poisson rate ends the cell with a ValueError
SynthArea ==
    /\ pc = "arrays"
    /\ loop_i < N
    /\ \E s \in SlopeNoise, z \in NormalNoise, k \in PoissonOutcomes :
       \E slope \in {RAdd(One, s)} :
       \* the cells whose Poisson rate is negative, and the cells before the first
       \E bad \in {{j \in Areas(T) : PoissonRaises(poisson_lam(loop_i, j, slope))}} :
       \E done \in {{j \in Areas(T) : \A b \in bad : j < b}} :
            /\ random_slope' = slope
            /\ y_time' = [y_time EXCEPT !.val[loop_i] =
                   [j \in Areas(T) |->
                       IF j \in done THEN PoissonDraw(poisson_lam(loop_i, j, slope), k)
                       ELSE @[j]]]
            /\ x_time' = [x_time EXCEPT !.val[loop_i] =
                   [j \in Areas(T) |->
                       IF j \in done THEN NormalDraw(x_time_loc(loop_i, j), NoiseScale, z)
                       ELSE @[j]]]
            /\ log_offset_time' = [log_offset_time EXCEPT !.val[loop_i] =
                   [j \in Areas(T) |->
                       IF j \in done THEN NormalDraw(log_offset_loc(loop_i, j), NoiseScale, z)
                       ELSE @[j]]]
            /\ draw_args' = draw_args @@
                   [c \in {<<loop_i, j>> : j \in done} |->
                       [lam |-> poisson_lam(c[1], c[2], slope),
                        x_loc |-> x_time_loc(c[1], c[2]),
                        offset_loc |-> log_offset_loc(c[1], c[2]),
                        z |-> z]]
            /\ IF bad = {}
                   THEN pc' = "arrays" /\ loop_i' = loop_i + 1
                   ELSE pc' = "ValueError" /\ loop_i' = loop_i
    /\ UNCHANGED <<adjVars, parseVars, potVars, y, x, logE, T, t_diff, multipler, declVars>>

\* differencing the time dimension
TimeDiff ==
    /\ pc = "arrays"
    /\ loop_i = N
    /\ t_diff' = time_index(N, T)
    /\ pc' = "synthetic"
    /\ UNCHANGED <<adjVars, parseVars, potVars, y, x, logE, T, y_time, x_time,
                   log_offset_time, multipler, random_slope, loop_i, draw_args, declVars>>

NextSynth ==
    \/ GrowthFactors
    \/ SynthArea
    \/ TimeDiff

SpecSynth == InitSynth /\ [][NextSynth]_vars

----------------------------------------------------------------------------
(* Model declaration: C8 - C10 *)

\* a count the Poisson likelihood admits: a non-negative integer
ValidCount(v) == v[2] = 1 /\ v[1] >= 0

ObservedCells(A) ==
    {Get(A, i, j) : i \in Areas(Pad(A.shape)[1]), j \in Areas(Pad(A.shape)[2])}

\* C8: a negative or non-integer observed count stops the pipeline with a
\* validation failure before model construction, so no model is ever declared
\* on such counts.
C8_InvalidCountsNeverReachModel ==
    pc # "data" => \A v \in ObservedCells(model.observed.data) : ValidCount(v)

\* the latent random-effect vectors of a model: its free variables over the areas
LatentVectors(m) ==
    {m.free[k].name : k \in {l \in DOMAIN m.free : "num_areas" \in Range(m.free[l].dims)}}

ZeroSumTerms(m) == {k \in DOMAIN m.potentials : m.potentials[k].fn = "zero_constraint"}

ZeroSumName(v) ==
    IF v = "phi" THEN "zero_sum_phi"
    ELSE IF v = "theta" THEN "zero_sum_theta"
    ELSE IF v = "delta" THEN "zero_sum_delta"
    ELSE "none"

RECURSIVE SumOwnEntries(_, _)
SumOwnEntries(v, S) ==
    IF S = {} THEN Zero
    ELSE LET i == CHOOSE z \in S : TRUE
         IN  RAdd(AreaVec(point[v])[i], SumOwnEntries(v, S \ {i}))

\* C9: in every model variant each latent random-effect vector has exactly one
\* zero-sum potential, evaluated on the sum of that vector's own entries (BYM:
\* theta and phi; static Leroux: phi; spatio-temporal Leroux: phi and delta),
\* and there is no zero-sum term on anything else.
C9_OwnZeroSumTermPerVector ==
    /\ pc # "data" =>
        /\ pc \in {"bym_model", "bym_sampled"} => LatentVectors(model) = {"theta", "phi"}
        /\ pc \in {"leroux_model", "leroux_sampled"} => LatentVectors(model) = {"phi"}
        /\ pc \in {"st_leroux_model", "st_leroux_sampled"} =>
               LatentVectors(model) = {"phi", "delta"}
        /\ \A v \in LatentVectors(model) :
               Cardinality({k \in ZeroSumTerms(model) :
                               /\ model.potentials[k].args = <<v>>
                               /\ model.potentials[k].name = ZeroSumName(v)}) = 1
        /\ Cardinality(ZeroSumTerms(model)) = Cardinality(LatentVectors(model))
    /\ pc \in {"bym_sampled", "leroux_sampled", "st_leroux_sampled"} =>
        \A v \in LatentVectors(model) :
            potential[ZeroSumName(v)] = logp_zero_constraint(SumOwnEntries(v, Areas(N)))

C9_Witness ==
    /\ pc = "st_leroux_sampled"
    /\ SumOwnEntries("phi", Areas(N)) # SumOwnEntries("delta", Areas(N))
    /\ potential.zero_sum_phi # potential.zero_sum_delta
    /\ potential.zero_sum_delta = logp_zero_constraint(SumOwnEntries("delta", Areas(N)))

\* the standard deviation s > 0 with s^2 * tau = 1
IsSigmaOf(sg, tau) == RLess(Zero, sg) /\ RMul(RSquare(sg), tau) = One

----------------------------------------------------------------------------
(* BYM declaration: C11 *)

\* the free variables of model m that have the name nm
Named(m, nm) == {k \in DOMAIN m.free : m.free[k].name = nm}

\* the length of a variable declared with the dims ds under the coords of m
DeclaredLength(m, ds) ==
    IF ds = <<"num_areas">> THEN m.coords.num_areas ELSE 0 - 1

\* C11: a BYM declaration over N areas declares exactly 2 precision
\* hyperparameters (tau_theta, tau_phi), exactly 1 spatial vector phi of length
\* N, exactly 1 independent vector theta of length N, and one Poisson
\* likelihood node of length N.
C11_BymDeclaration ==
    pc \in {"bym_model", "bym_sampled"} =>
        LET gammas == {k \in DOMAIN model.free : model.free[k].dist = "Gamma"}
            vectors == {k \in DOMAIN model.free : model.free[k].dims # <<>>}
        IN  /\ Cardinality(gammas) = 2
            /\ {model.free[k].name : k \in gammas} = {"tau_theta", "tau_phi"}
            /\ \A k \in gammas : model.free[k].dims = <<>>
            /\ Cardinality(Named(model, "phi")) = 1
            /\ Cardinality(Named(model, "theta")) = 1
            /\ vectors = Named(model, "phi") \cup Named(model, "theta")
            /\ \A k \in Named(model, "phi") :
                   /\ model.free[k].dist = "Flat"
                   /\ DeclaredLength(model, model.free[k].dims) = N
            /\ \A k \in Named(model, "theta") :
                   /\ model.free[k].dist = "Normal"
                   /\ DeclaredLength(model, model.free[k].dims) = N
            /\ model.observed.dist = "Poisson"
            /\ DeclaredLength(model, model.observed.dims) = N
            /\ model.observed.data.shape = <<N>>

C11_Witness ==
    /\ pc = "bym_model"
    /\ N >= 2
    /\ ADJ = FullyConnected(N)
    /\ Cardinality(DOMAIN model.free) = 6
    /\ DeclaredLength(model, model.observed.dims) = N

----------------------------------------------------------------------------
(* The synthetic generator: C12 - C15 *)

GrowthFactorsMade == pc \in {"arrays", "synthetic", "ValueError"}

\* the arrays y_time, x_time, log_offset_time all have n rows and t columns
SyntheticShape(n, t) ==
    /\ y_time.shape = <<n, t>>
    /\ x_time.shape = <<n, t>>
    /\ log_offset_time.shape = <<n, t>>
    /\ \A i \in Areas(n) : DOMAIN y_time.val[i] = Areas(t)

\* C12: the growth-factor sequence has exactly T = 5 elements, 1.00, 1.05,
\* 1.10, 1.15, 1.20, so the synthetic arrays have 5 time steps.
C12_FiveGrowthFactors ==
    GrowthFactorsMade =>
        /\ T = 5
        /\ multipler.shape = <<5>>
        /\ \A j \in Areas(5) : multipler.val[j] = Rat(100 + 5 * j, 100)
        /\ SyntheticShape(N, 5)

\* C12 as amended: the growth-factor sequence has exactly T = 7 elements,
\* 1.00, 1.05, 1.10, 1.15, 1.20, 1.25, 1.30 (up to rounding), so the synthetic
\* arrays have 7 time steps.
C12_SevenGrowthFactors ==
    GrowthFactorsMade =>
        /\ T = 7
        /\ multipler.shape = <<7>>
        /\ \A j \in Areas(7) : multipler.val[j] = Rat(100 + 5 * j, 100)
        /\ SyntheticShape(N, 7)

C12_Witness ==
    /\ pc = "arrays"
    /\ loop_i = N
    /\ T = Cardinality(DOMAIN multipler.val)
    /\ multipler.val[T - 1] = GrowthStop
    /\ DOMAIN y_time.val[N - 1] = Areas(T)

\* C13: for every area i the values t_diff[i, 0..T-1] are T consecutive
\* integers whose minimum is the negative of their maximum, equivalently whose
\* sum is 0.
C13_TimeIndexSymmetric ==
    pc = "synthetic" =>
        /\ t_diff.shape = <<N, T>>
        /\ \A i \in Areas(N) :
            /\ DOMAIN t_diff.val[i] = Areas(T)
            /\ \A j \in Areas(T) : t_diff.val[i][j][2] = 1
            /\ \A j \in Areas(T - 1) :
                   t_diff.val[i][j + 1] = RAdd(t_diff.val[i][j], One)
            /\ t_diff.val[i][0] = RSub(Zero, t_diff.val[i][T - 1])
            /\ SumTo(t_diff.val[i], T) = Zero

C13_Witness ==
    /\ pc = "synthetic"
    /\ N = 2
    /\ T > 1
    /\ RLess(t_diff.val[1][0], Zero)
    /\ RLess(Zero, t_diff.val[1][T - 1])

\* the area whose slope random_slope holds
SlopeArea == IF pc = "ValueError" THEN loop_i ELSE loop_i - 1

\* the Poisson rate of every generated cell of the area random_slope belongs to
\* is y[i] * multipler[j] * random_slope
RateIsBaseTimesGrowthTimesSlope ==
    \A c \in DOMAIN draw_args :
        c[1] = SlopeArea =>
            draw_args[c].lam = RMul(RMul(y.val[c[1]], multipler.val[c[2]]), random_slope)

\* the offset of every generated cell is centred on logE[i] * multipler[j]
OffsetCentreScaled ==
    \A c \in DOMAIN draw_args :
        /\ draw_args[c].offset_loc = RMul(logE.val[c[1]], multipler.val[c[2]])
        /\ draw_args[c].z = Zero =>
               log_offset_time.val[c[1]][c[2]] = RMul(logE.val[c[1]], multipler.val[c[2]])

\* C14: for every area i and time step j the Poisson rate is
\* y[i] * multipler[j] * perturbation[i], the covariate is centred on
\* x[i] * multipler[j] and the offset on logE[i] * multipler[j]; with zero
\* noise x_time[i,j] = x[i] * multipler[j] and
\* log_offset_time[i,j] = logE[i] * multipler[j].
C14_CentresScaledByGrowth ==
    GrowthFactorsMade =>
        /\ RateIsBaseTimesGrowthTimesSlope
        /\ OffsetCentreScaled
        /\ \A c \in DOMAIN draw_args :
            /\ draw_args[c].x_loc = RMul(x.val[c[1]], multipler.val[c[2]])
            /\ draw_args[c].z = Zero =>
                   x_time.val[c[1]][c[2]] = RMul(x.val[c[1]], multipler.val[c[2]])

\* C14 as amended: the rate and the offset centre are as stated, and the
\* covariate is centred on the area's base value x[i] at every time step, not
\* scaled by the growth factor; with zero noise x_time[i,j] = x[i].
C14_CovariateCentreUnscaled ==
    GrowthFactorsMade =>
        /\ RateIsBaseTimesGrowthTimesSlope
        /\ OffsetCentreScaled
        /\ \A c \in DOMAIN draw_args :
            /\ draw_args[c].x_loc = x.val[c[1]]
            /\ draw_args[c].z = Zero => x_time.val[c[1]][c[2]] = x.val[c[1]]

C14_Witness ==
    /\ pc = "synthetic"
    /\ N = 2
    /\ <<1, T - 1>> \in DOMAIN draw_args
    /\ draw_args[<<1, T - 1>>].z = Zero
    /\ draw_args[<<1, T - 1>>].lam # Zero
    /\ multipler.val[T - 1] # One
    /\ x_time.val[1][T - 1] = x.val[1]
    /\ x_time.val[1][T - 1] # RMul(x.val[1], multipler.val[T - 1])
    /\ log_offset_time.val[1][T - 1] = RMul(logE.val[1], multipler.val[T - 1])

\* C15: for every base dataset with non-negative counts and every outcome of
\* the random draws, the generator completes and y_time has shape N x T with
\* only non-negative integers.
C15_GeneratorCompletes ==
    (\A i \in Areas(N) : ValidCount(y.val[i])) =>
        /\ pc # "ValueError"
        /\ pc = "synthetic" =>
            /\ y_time.shape = <<N, T>>
            /\ \A v \in ObservedCells(y_time) : ValidCount(v)

----------------------------------------------------------------------------
(* The zero-sum potential and the pairwise potentials: C16, C17 *)

RAbs(a) == <<Abs(a[1]), a[2]>>

\* the log-density lp1 is greater than lp2 (both with the same constant)
LogpGreater(lp1, lp2) ==
    /\ lp1.constant = lp2.constant
    /\ RLess(lp2.quadratic, lp1.quadratic)

\* C16: the zero-sum potential is strictly decreasing in |s|, s the sum of the
\* vector: of two vectors with 0 <= sum(a) < sum(b) (more generally
\* |sum(a)| < |sum(b)|) a has the greater potential; and the potential depends
\* on the vector only through its sum.
C16_ZeroSumDecreasing ==
    pc \in {"bym_sampled", "leroux_sampled", "st_leroux_sampled"} =>
        \A a \in LatentVectors(model) : \A b \in LatentVectors(model) :
            LET sa == SumOwnEntries(a, Areas(N))
                sb == SumOwnEntries(b, Areas(N))
                pa == potential[ZeroSumName(a)]
                pb == potential[ZeroSumName(b)]
            IN  /\ (~RLess(sa, Zero) /\ RLess(sa, sb)) => LogpGreater(pa, pb)
                /\ RLess(RAbs(sa), RAbs(sb)) => LogpGreater(pa, pb)
                /\ sa = sb => pa = pb
                /\ sa = Zero => pa.quadratic = Zero
                /\ sa # Zero => RLess(pa.quadratic, Zero)

C16_Witness ==
    /\ pc = "bym_sampled"
    /\ RLess(Zero, SumOwnEntries("theta", Areas(N)))
    /\ RLess(SumOwnEntries("theta", Areas(N)), SumOwnEntries("phi", Areas(N)))
    /\ LogpGreater(potential.zero_sum_theta, potential.zero_sum_phi)

\* Constants added to a latent vector.
Shifts == {Rat(0 - 3, 1), Rat(1, 2), Rat(1, 1), Rat(7, 3)}

\* phi + c
Shifted(p, c) == [i \in DOMAIN p |-> RAdd(p[i], c)]

\* the edge list without its self-loops
ProperEdges == SelectSeq([k \in DOMAIN node1 |-> <<node1[k], node2[k]>>],
                         LAMBDA ed : ed[1] # ed[2])
ProperNode1 == [k \in DOMAIN ProperEdges |-> ProperEdges[k][1]]
ProperNode2 == [k \in DOMAIN ProperEdges |-> ProperEdges[k][2]]

\* C17: the pairwise potentials do not change when a constant c is added to
\* the vector, for every rho and every edge list; self-loop edges contribute
\* 0; square_sum does change (except at rho = 1, c = 0 or where the shift
\* happens to preserve the sum of squares).
C17_ShiftInvariance ==
    /\ pc = "leroux" =>
        /\ \A c \in Shifts :
            /\ pairwise_diff_leroux(rho, Shifted(phi, c), node1, node2)
                   = potential.pairwise_diff_leroux
            /\ square_sum(rho, Shifted(phi, c)) = potential.square_sum
                   <=> \/ rho = One
                       \/ RAdd(RMul(Rat(2, 1), SumTo(phi, N)), RMul(Rat(N, 1), c)) = Zero
        /\ pairwise_diff_leroux(rho, phi, ProperNode1, ProperNode2)
               = potential.pairwise_diff_leroux
    /\ pc = "icar" =>
        /\ \A c \in Shifts :
               icar_pairwise_diff(Shifted(phi, c), node1, node2) = potential.icar_pairwise_diff
        /\ icar_pairwise_diff(phi, ProperNode1, ProperNode2) = potential.icar_pairwise_diff
    /\ pc \in {"leroux", "icar"} =>
        \A k \in DOMAIN node1 :
            node1[k] = node2[k] => SquaredDiffs(phi, node1, node2)[k] = Zero

C17_Witness ==
    /\ pc = "leroux"
    /\ RLess(potential.pairwise_diff_leroux, Zero)
    /\ \E k \in DOMAIN node1 : node1[k] = node2[k]
    /\ pairwise_diff_leroux(rho, Shifted(phi, Rat(7, 3)), node1, node2)
           = potential.pairwise_diff_leroux
    /\ square_sum(rho, Shifted(phi, Rat(7, 3))) # potential.square_sum

====
